---- MODULE Spec2Model ----
(***************************************************************************)
(* StationaryDetector (src/utils/sensors.ts) and LocationService           *)
(* (src/LocationService.ts).                                               *)
(*                                                                         *)
(* Units.  Accelerations and deviations are in tenths of m/s^2, speeds in  *)
(* tenths of m/s, so that the thresholds 0.3, 0.2 and the gravity 9.8 of   *)
(* the source are the integers 3, 2 and 98.  Times are clock ticks.  A     *)
(* mean is kept as the exact fraction <<sum, n>> and a standard deviation  *)
(* as the exact fraction <<n*sumsq - sum^2, n^2>> of its square; the       *)
(* comparisons with the thresholds are made on these fractions.            *)
(***************************************************************************)
EXTENDS Integers, Sequences, FiniteSets

\* ------------------------------------------------------------------ bounds
MaxClock == 4
MaxWindow == 3
MaxInserted == 4

\* ------------------------------------------------------- program constants
Null == -1
Gravity == 98
DefaultMeanThreshold == 3
DefaultStdThreshold == 2
GPS_DRIFT_SPEED_THRESHOLD == 3

\* The configurations a detector is constructed with (the five options of the
\* constructor); times in ticks, thresholds as in the source.
HistoryDurations == {1, 2}
StationaryDurations == {1, 2}
MinSampleCounts == {1, 2, 3}

Configs ==
  [historyDurationMs : HistoryDurations,
   meanThreshold : {DefaultMeanThreshold},
   stdThreshold : {DefaultStdThreshold},
   stationaryDurationMs : StationaryDurations,
   minSampleCount : MinSampleCounts]

\* Accelerometer readings <<x, y, z>>: magnitudes 98 (deviation 0) and 94
\* (deviation 4, above meanThreshold).
QuietReading == <<28, 42, 84>>
Readings == {QuietReading, <<94, 0, 0>>}

\* GPS speeds of a fix; Null is a fix whose speed the platform does not report.
Speeds == {Null, 3, 5}

VARIABLES
  cfg,                        \* the detector's readonly options
  clock,                      \* what Date.now() returns
  deviationHistory,           \* StationaryDetector.deviationHistory
  isStationary,               \* StationaryDetector.isStationary
  stationaryStartTime,        \* StationaryDetector.stationaryStartTime
  watchId,                    \* LocationService.watchId
  accelerometerSubscription,  \* LocationService.accelerometerSubscription
  activeWatches,              \* watches Geolocation holds
  activeSubscriptions,        \* subscriptions the accelerometer observable holds
  last,                       \* the latest step, its inputs and what it returned
  obs,                        \* history of the calls made so far
  quietSince,                 \* first call of a feed of quiet readings only
  inserted                    \* samples logged since construction or reset()

detector == <<deviationHistory, isStationary, stationaryStartTime>>
service == <<watchId, accelerometerSubscription, activeWatches,
             activeSubscriptions>>
vars == <<cfg, clock, deviationHistory, isStationary, stationaryStartTime,
          watchId, accelerometerSubscription, activeWatches,
          activeSubscriptions, last, obs, quietSince, inserted>>

\* ------------------------------------------------------------ arithmetic
Abs(n) == IF n < 0 THEN -n ELSE n

\* Math.sqrt on the squares the readings produce.
Sqrt(n) == CHOOSE r \in 0..200 : r * r = n

RECURSIVE SumValues(_)
SumValues(h) == IF h = <<>> THEN 0 ELSE h[1].value + SumValues(Tail(h))

RECURSIVE SumSquares(_)
SumSquares(h) ==
  IF h = <<>> THEN 0 ELSE h[1].value * h[1].value + SumSquares(Tail(h))

Zero == <<0, 1>>
IsZero(q) == q[1] = 0

\* q < t for the fraction q = <<num, den>>, den > 0
FracLess(q, t) == q[1] < t * q[2]
\* sqrt(q) < t for t >= 0
RootLess(q, t) == q[1] < t * t * q[2]

\* ------------------------------------------------------ StationaryDetector
\* addDeviationData dropping a sample aged exactly historyDurationMs
addDeviationDataStrict(history, deviation, now) ==
  LET pushed == Append(history, [value |-> deviation, timestamp |-> now])
      Keep(data) == now - data.timestamp < cfg.historyDurationMs
  IN SelectSeq(pushed, Keep)

addDeviationData(history, deviation, now) ==
  LET pushed == Append(history, [value |-> deviation, timestamp |-> now])
      Keep(data) == now - data.timestamp <= cfg.historyDurationMs
  IN SelectSeq(pushed, Keep)

calculateMean(history) ==
  IF Len(history) = 0 THEN Zero
  ELSE <<SumValues(history), Len(history)>>

\* the square of the value calculateStandardDeviation returns
calculateStandardDeviation(history) ==
  IF Len(history) = 0 THEN Zero
  ELSE <<Len(history) * SumSquares(history)
           - SumValues(history) * SumValues(history),
         Len(history) * Len(history)>>

\* hasEnoughData satisfied by any sample at all
hasEnoughDataAny(history) == Len(history) >= 1

\* hasEnoughData satisfied one sample early
hasEnoughDataEarly(history) == Len(history) + 1 >= cfg.minSampleCount

hasEnoughData(history) == Len(history) >= cfg.minSampleCount

\* isCurrentlyStationary with a mean equal to its threshold taken as quiet
isCurrentlyStationaryAtMost(mean, std) ==
  mean[1] <= cfg.meanThreshold * mean[2] /\ RootLess(std, cfg.stdThreshold)

isCurrentlyStationary(mean, std) ==
  FracLess(mean, cfg.meanThreshold) /\ RootLess(std, cfg.stdThreshold)

\* startAfter with the timer kept when the window is not quiet
startAfterKept(quiet, start0, now) ==
  IF start0 = Null THEN (IF quiet THEN now ELSE Null) ELSE start0

\* stationaryStartTime after the branch taken: set once while quiet, cleared
\* when not
startAfter(quiet, start0, now) ==
  IF quiet THEN (IF start0 = Null THEN now ELSE start0) ELSE Null

\* dwellElapsed with a strict comparison
dwellElapsedStrict(now, start) == now - start > cfg.stationaryDurationMs

dwellElapsed(now, start) == now - start >= cfg.stationaryDurationMs

\* stationaryAfter without the dwell gate
stationaryAfterNoDwell(quiet, reached, stat0) == quiet

\* isStationary after the branch taken
stationaryAfter(quiet, reached, stat0) ==
  IF quiet THEN (IF reached THEN TRUE ELSE stat0) ELSE FALSE

\* stateChangedOf reporting every call that is not quiet
stateChangedOfAnyMoving(quiet, reached, wasStationary) ==
  IF quiet THEN reached /\ ~wasStationary ELSE TRUE

\* stateChangedOf without the test of wasStationary in the quiet branch
stateChangedOfRepeated(quiet, reached, wasStationary) ==
  IF quiet THEN reached ELSE wasStationary

stateChangedOf(quiet, reached, wasStationary) ==
  IF quiet THEN reached /\ ~wasStationary ELSE wasStationary

\* `this.stationaryStartTime ? now - this.stationaryStartTime : 0`: null and 0
\* are both falsy
durationOf(start, now) == IF start = Null \/ start = 0 THEN 0 ELSE now - start

NeutralResult ==
  [isStationary |-> FALSE, mean |-> Zero, standardDeviation |-> Zero,
   duration |-> 0, stateChanged |-> FALSE]

\* detectStationary on a detector in state (history0, stat0, start0), with
\* tsNow the clock reading of addDeviationData and now the one of line 113:
\* the detector's next state, the result returned and how the call went.
detectStationary(history0, stat0, start0, x, y, z, tsNow, now) ==
  LET magnitude == Sqrt(x * x + y * y + z * z)
      deviation == Abs(magnitude - Gravity)
      history == addDeviationData(history0, deviation, tsNow)
      wasStationary == stat0
      mean == calculateMean(history)
      std == calculateStandardDeviation(history)
      quiet == isCurrentlyStationary(mean, std)
      start == startAfter(quiet, start0, now)
      reached == quiet /\ dwellElapsed(now, start)
      stat == stationaryAfter(quiet, reached, stat0)
  IN IF hasEnoughData(history)
     THEN [history |-> history, stat |-> stat, start |-> start,
           class |-> IF quiet THEN "quiet" ELSE "moving",
           deviation |-> deviation,
           result |->
             [isStationary |-> stat, mean |-> mean, standardDeviation |-> std,
              duration |-> durationOf(start, now),
              stateChanged |-> stateChangedOf(quiet, reached, wasStationary)]]
     ELSE [history |-> history, stat |-> stat0, start |-> start0,
           class |-> "pending", deviation |-> deviation,
           result |-> NeutralResult]

getIsStationary == isStationary

\* --------------------------------------------------------------- observer
Min(a, b) == IF a < b THEN a ELSE b

InitObs ==
  [calls |-> 0, epoch |-> "new", runActive |-> FALSE, runChanges |-> 0,
   timerSetAt |-> Null]

\* what the history records of a detectStationary call that went as `r` at `now`
ObserveCall(r, start0, now) ==
  LET sc == IF r.result.stateChanged THEN 1 ELSE 0
  IN [calls |-> Min(obs.calls + 1, cfg.minSampleCount),
      epoch |-> obs.epoch,
      runActive |-> r.class = "quiet",
      runChanges |-> IF r.class = "quiet"
                     THEN (IF obs.runActive THEN Min(obs.runChanges + sc, 2) ELSE sc)
                     ELSE obs.runChanges,
      timerSetAt |-> IF r.start = Null THEN Null
                     ELSE IF start0 = Null THEN now ELSE obs.timerSetAt]

ObserveReset ==
  [InitObs EXCEPT !.epoch = "reset", !.runChanges = obs.runChanges]

\* -------------------------------------------------------------------- Init
Init ==
  /\ cfg \in Configs
  /\ clock = 0
  /\ deviationHistory = <<>>
  /\ isStationary = FALSE
  /\ stationaryStartTime = Null
  /\ watchId = Null
  /\ accelerometerSubscription = Null
  /\ activeWatches = {}
  /\ activeSubscriptions = {}
  /\ last = [op |-> "new"]
  /\ obs = InitObs
  /\ quietSince = Null
  /\ inserted = <<>>

\* ----------------------------------------------------------------- actions
\* time passes between two callbacks
Tick ==
  /\ clock < MaxClock
  /\ clock' = clock + 1
  /\ last' = [op |-> "tick"]
  /\ UNCHANGED <<cfg, detector, service, obs, quietSince, inserted>>

\* the timestamp of the newest sample of the window: when the latest call since
\* construction or reset() was made
newestTimestamp(history) ==
  IF history = <<>> THEN Null ELSE history[Len(history)].timestamp

\* A call of detectStationary on the reading <<x, y, z>>; `lag` is the time
\* that passes between the Date.now() of addDeviationData and the Date.now()
\* of detectStationary.
CallDetectStationary(x, y, z, lag) ==
  /\ clock + lag <= MaxClock
  /\ LET r == detectStationary(deviationHistory, isStationary,
                               stationaryStartTime, x, y, z, clock, clock + lag)
     IN /\ Len(r.history) <= MaxWindow
        /\ deviationHistory' = r.history
        /\ isStationary' = r.stat
        /\ stationaryStartTime' = r.start
        /\ clock' = clock + lag
        /\ last' = [op |-> "detect", deviation |-> r.deviation,
                    tsNow |-> clock, now |-> clock + lag,
                    wasStationary |-> isStationary,
                    startBefore |-> stationaryStartTime,
                    previousCallAt |-> newestTimestamp(deviationHistory),
                    previousQuiet |-> obs.runActive,
                    class |-> r.class, result |-> r.result]
        /\ obs' = ObserveCall(r, stationaryStartTime, clock + lag)
  /\ UNCHANGED cfg

\* The accelerometer subscriber of startAccelerometerWatching: it runs while
\* the subscription is active and hands the reading to the detector.
AccelerometerSample(x, y, z, lag) ==
  /\ accelerometerSubscription # Null
  /\ accelerometerSubscription \in activeSubscriptions
  /\ CallDetectStationary(x, y, z, lag)
  /\ UNCHANGED service

\* reset that leaves the stationary flag as it is
resetKeepingFlag ==
  /\ deviationHistory' = <<>>
  /\ isStationary' = isStationary
  /\ stationaryStartTime' = Null
  /\ last' = [op |-> "reset", wasStationary |-> isStationary]
  /\ obs' = ObserveReset
  /\ inserted' = <<>>
  /\ UNCHANGED <<cfg, clock, service, quietSince>>

\* reset that leaves the window as it is
resetKeepingWindow ==
  /\ deviationHistory' = deviationHistory
  /\ isStationary' = FALSE
  /\ stationaryStartTime' = Null
  /\ last' = [op |-> "reset", wasStationary |-> isStationary]
  /\ obs' = ObserveReset
  /\ inserted' = <<>>
  /\ UNCHANGED <<cfg, clock, service, quietSince>>

reset ==
  /\ deviationHistory' = <<>>
  /\ isStationary' = FALSE
  /\ stationaryStartTime' = Null
  /\ last' = [op |-> "reset", wasStationary |-> isStationary]
  /\ obs' = ObserveReset
  /\ inserted' = <<>>
  /\ UNCHANGED <<cfg, clock, service, quietSince>>

speedOrZero(speed) == IF speed = Null THEN 0 ELSE speed

\* driftDetected with >= for >
driftDetectedAtThreshold(stationary, speed) ==
  stationary /\ speed >= GPS_DRIFT_SPEED_THRESHOLD

driftDetected(stationary, speed) ==
  stationary /\ speed > GPS_DRIFT_SPEED_THRESHOLD

\* GpsFix that marks the detector as moving when the fix reports motion
GpsFixWriting(coordsSpeed) ==
  /\ watchId # Null
  /\ watchId \in activeWatches
  /\ LET speed == speedOrZero(coordsSpeed)
     IN /\ last' = [op |-> "fix", coordsSpeed |-> coordsSpeed, speed |-> speed,
                    stationary |-> getIsStationary,
                    drift |-> driftDetected(getIsStationary, speed)]
        /\ isStationary' = (isStationary /\ ~driftDetected(getIsStationary, speed))
  /\ UNCHANGED <<cfg, clock, deviationHistory, stationaryStartTime, service,
                 obs, quietSince, inserted>>

\* The watchPosition success callback: one GPS fix.
GpsFix(coordsSpeed) ==
  /\ watchId # Null
  /\ watchId \in activeWatches
  /\ LET speed == speedOrZero(coordsSpeed)
     IN last' = [op |-> "fix", coordsSpeed |-> coordsSpeed, speed |-> speed,
                 stationary |-> getIsStationary,
                 drift |-> driftDetected(getIsStationary, speed)]
  /\ UNCHANGED <<cfg, clock, detector, service, obs, quietSince, inserted>>

\* the id the library hands out: one that names no active watch (subscription)
freshId(active) == CHOOSE i \in 0..Cardinality(active) : i \notin active

startAccelerometerWatching ==
  /\ accelerometerSubscription' = freshId(activeSubscriptions)
  /\ activeSubscriptions' =
       activeSubscriptions \cup {freshId(activeSubscriptions)}

\* startWatching without the early return
startWatchingAgain ==
  /\ startAccelerometerWatching
  /\ watchId' = freshId(activeWatches)
  /\ activeWatches' = activeWatches \cup {freshId(activeWatches)}
  /\ last' = [op |-> "start", wasWatching |-> watchId # Null]
  /\ UNCHANGED <<cfg, clock, detector, obs, quietSince, inserted>>

startWatching ==
  /\ IF watchId # Null
     THEN UNCHANGED service
     ELSE /\ startAccelerometerWatching
          /\ watchId' = freshId(activeWatches)
          /\ activeWatches' = activeWatches \cup {freshId(activeWatches)}
  /\ last' = [op |-> "start", wasWatching |-> watchId # Null]
  /\ UNCHANGED <<cfg, clock, detector, obs, quietSince, inserted>>

stopWatching ==
  /\ IF watchId # Null
     THEN /\ activeWatches' = activeWatches \ {watchId}
          /\ watchId' = Null
     ELSE UNCHANGED <<activeWatches, watchId>>
  /\ IF accelerometerSubscription # Null
     THEN /\ activeSubscriptions' =
               activeSubscriptions \ {accelerometerSubscription}
          /\ accelerometerSubscription' = Null
     ELSE UNCHANGED <<activeSubscriptions, accelerometerSubscription>>
  /\ last' = [op |-> "stop"]
  /\ UNCHANGED <<cfg, clock, detector, obs, quietSince, inserted>>

isWatching == watchId # Null

\* LocationService.getIsStationary
ServiceGetIsStationary ==
  /\ last' = [op |-> "get", returned |-> getIsStationary]
  /\ UNCHANGED <<cfg, clock, detector, service, obs, quietSince, inserted>>

Sample ==
  \E v \in Readings, lag \in {0, 1} :
    /\ AccelerometerSample(v[1], v[2], v[3], lag)
    /\ UNCHANGED <<quietSince, inserted>>

Fix == \E s \in Speeds : GpsFix(s)

\* The program: a LocationService and the detector it owns.
Next ==
  \/ Tick
  \/ Sample
  \/ Fix
  \/ startWatching
  \/ stopWatching
  \/ ServiceGetIsStationary

Spec == Init /\ [][Next]_vars

\* The class StationaryDetector under any caller of its public methods.
Detect ==
  \E v \in Readings, lag \in {0, 1} :
    /\ CallDetectStationary(v[1], v[2], v[3], lag)
    /\ UNCHANGED <<service, quietSince, inserted>>

DetectorNext ==
  \/ Tick
  \/ Detect
  \/ reset

DetectorSpec == Init /\ [][DetectorNext]_vars

\* A new detector fed quiet readings only (deviation constantly 0).
QuietDetect ==
  \E lag \in {0, 1} :
    /\ CallDetectStationary(QuietReading[1], QuietReading[2], QuietReading[3], lag)
    /\ quietSince' = IF quietSince = Null THEN clock + lag ELSE quietSince
    /\ UNCHANGED <<service, inserted>>

QuietNext ==
  \/ Tick
  \/ QuietDetect

QuietSpec == Init /\ [][QuietNext]_vars

\* The detector with every sample it is handed logged, from construction or
\* the last reset() on.
LoggedDetect ==
  \E v \in Readings, lag \in {0, 1} :
    /\ Len(inserted) < MaxInserted
    /\ CallDetectStationary(v[1], v[2], v[3], lag)
    /\ inserted' = Append(inserted,
                          [value |-> Abs(Sqrt(v[1] * v[1] + v[2] * v[2] + v[3] * v[3])
                                           - Gravity),
                           timestamp |-> clock])
    /\ UNCHANGED <<service, quietSince>>

WindowNext ==
  \/ Tick
  \/ LoggedDetect
  \/ reset

WindowSpec == Init /\ [][WindowNext]_vars

\* The detector fed readings that bring the rolling mean onto its threshold:
\* magnitude 101 is deviation 3.
BoundaryReadings == Readings \cup {<<0, 0, 101>>}

ClassifyDetect ==
  \E v \in BoundaryReadings, lag \in {0, 1} :
    /\ CallDetectStationary(v[1], v[2], v[3], lag)
    /\ UNCHANGED <<service, quietSince, inserted>>

ClassifyNext ==
  \/ Tick
  \/ ClassifyDetect

ClassifySpec == Init /\ [][ClassifyNext]_vars

\* ------------------------------------------------------------- properties
\* The statistics of the window a call has left, computed apart from the
\* operators of the detector.
WindowSum == SumValues(deviationHistory)
WindowSize == Len(deviationHistory)
WindowClassified == WindowSize >= cfg.minSampleCount
RollingMeanBelow == WindowSum < cfg.meanThreshold * WindowSize
RollingStdBelow ==
  WindowSize * SumSquares(deviationHistory) - WindowSum * WindowSum
    < cfg.stdThreshold * cfg.stdThreshold * WindowSize * WindowSize
WindowQuiet == WindowClassified /\ RollingMeanBelow /\ RollingStdBelow
WindowMoving == WindowClassified /\ ~(RollingMeanBelow /\ RollingStdBelow)
Called == last.op = "detect"
BecameStationary == Called /\ ~last.wasStationary /\ isStationary

\* C1: a GPS fix produces a drift event exactly when the detector is
\* stationary at that moment and the fix reports a speed strictly above
\* 0.3 m/s; an absent speed counts as 0, a speed of exactly 0.3 gives no event,
\* and no fix gives an event while the detector is not stationary.
DriftRule ==
  last.op = "fix" =>
    (last.drift <=>
       (isStationary /\ last.coordsSpeed # Null
          /\ last.coordsSpeed > GPS_DRIFT_SPEED_THRESHOLD))

DriftRuleWitness ==
  /\ last.op = "fix"
  /\ last.drift
  /\ isStationary
  /\ last.coordsSpeed = 5

\* C2 as stated: once a new detector has been fed minSampleCount or more
\* samples of deviation 0 over a span longer than stationaryDurationMs, a call
\* in that span has returned isStationary = true (fed quiet readings only, the
\* flag is true exactly when a call has returned true).
QuietSpanConverges ==
  (Called /\ obs.calls >= cfg.minSampleCount
     /\ last.now - quietSince > cfg.stationaryDurationMs)
    => isStationary

\* C2 as amended: fed samples of deviation 0, a call that leaves minSampleCount
\* or more samples in the window has the dwell timer running, and when its
\* clock reading is at least stationaryDurationMs after the reading at which
\* the timer was started it returns isStationary = true and getIsStationary()
\* is true.
QuietDwellConverges ==
  (Called /\ WindowClassified) =>
    /\ stationaryStartTime # Null
    /\ obs.timerSetAt # Null
    /\ (last.now - obs.timerSetAt >= cfg.stationaryDurationMs
          => last.result.isStationary /\ getIsStationary)

QuietDwellConvergesWitness ==
  /\ BecameStationary
  /\ WindowClassified
  /\ last.result.isStationary
  /\ last.now - obs.timerSetAt = cfg.stationaryDurationMs
  /\ quietSince < obs.timerSetAt

SpikeClearsTimer ==
  (Called /\ last.startBefore # Null /\ ~last.wasStationary
     /\ last.deviation > cfg.meanThreshold)
    => stationaryStartTime = Null

\* C4 as amended: while the dwell timer is running and isStationary is still
\* false, a sample that makes the rolling mean of a window of minSampleCount or
\* more samples not below meanThreshold, or its rolling standard deviation not
\* below stdThreshold, clears the timer; and isStationary does not become true
\* until at least stationaryDurationMs after the timer is set again.
SpikeOverThresholdClearsTimer ==
  /\ (Called /\ last.startBefore # Null /\ ~last.wasStationary /\ WindowMoving)
       => (stationaryStartTime = Null /\ ~isStationary)
  /\ BecameStationary =>
       /\ obs.timerSetAt # Null
       /\ last.now - obs.timerSetAt >= cfg.stationaryDurationMs

SpikeOverThresholdClearsTimerWitness ==
  /\ Called
  /\ last.startBefore # Null
  /\ ~last.wasStationary
  /\ last.deviation > cfg.meanThreshold
  /\ WindowMoving
  /\ stationaryStartTime = Null

\* C5: when a call changes isStationary from false to true, every call made in
\* the stationaryDurationMs before it was classified quiet; here, the call made
\* just before it, when it was made less than stationaryDurationMs earlier.
DwellGate ==
  (BecameStationary /\ last.previousCallAt # Null
     /\ last.previousCallAt > last.now - cfg.stationaryDurationMs)
    => last.previousQuiet

\* the result of a call that did not classify
Neutral(result) ==
  /\ ~result.isStationary
  /\ IsZero(result.mean)
  /\ IsZero(result.standardDeviation)
  /\ result.duration = 0
  /\ ~result.stateChanged

\* C6: a call that leaves fewer than minSampleCount samples in the window
\* returns the neutral result whatever the state before it, and each of the
\* first minSampleCount - 1 calls on a new detector returns it.
InsufficientDataNeutral ==
  Called =>
    /\ ~WindowClassified => Neutral(last.result)
    /\ (obs.epoch = "new" /\ obs.calls < cfg.minSampleCount)
         => Neutral(last.result)

InsufficientDataNeutralWitness ==
  /\ Called
  /\ ~WindowClassified
  /\ last.wasStationary
  /\ last.startBefore # Null
  /\ Neutral(last.result)

\* C7: reset() empties the window, sets isStationary to false and clears the
\* dwell timer, so getIsStationary() is false right after it, and each of the
\* next minSampleCount - 1 calls returns the neutral result.
ResetProperty ==
  /\ last.op = "reset" =>
       /\ deviationHistory = <<>>
       /\ ~isStationary
       /\ stationaryStartTime = Null
       /\ ~getIsStationary
  /\ (Called /\ obs.epoch = "reset" /\ obs.calls < cfg.minSampleCount)
       => Neutral(last.result)

ResetPropertyWitness ==
  /\ last.op = "reset"
  /\ last.wasStationary
  /\ ~getIsStationary
  /\ deviationHistory = <<>>

\* C8: after a detectStationary call, getIsStationary() equals the
\* isStationary field of the result the call returned.
GetterEqualsResult ==
  Called => (getIsStationary = last.result.isStationary)

\* C9 as stated: a run of consecutive calls all classified quiet returns
\* stateChanged = true on exactly one call; here, for a run that a call not
\* classified quiet has just ended.
QuietRunExactlyOneChange ==
  (Called /\ last.previousQuiet /\ last.class # "quiet")
    => obs.runChanges = 1

\* C9 as amended: a run of consecutive calls all classified quiet, with no
\* reset() in it, returns stateChanged = true on at most one call, which is the
\* call at which isStationary goes from false to true, and on no later call of
\* the run.
QuietRunAtMostOneChange ==
  /\ obs.runChanges <= 1
  /\ (Called /\ WindowQuiet) =>
       (last.result.stateChanged <=> (~last.wasStationary /\ isStationary))

QuietRunAtMostOneChangeWitness ==
  /\ Called
  /\ WindowQuiet
  /\ last.previousQuiet
  /\ last.wasStationary
  /\ isStationary
  /\ ~last.result.stateChanged
  /\ obs.runChanges = 1

\* C10: handling a GPS fix and calling getIsStationary() leave the window, the
\* dwell timer and the stationary flag as they were.
ReadersLeaveDetector ==
  [][last'.op \in {"fix", "get"} => UNCHANGED detector]_vars

ReadersLeaveDetectorWitness ==
  /\ last.op = "fix"
  /\ last.drift
  /\ isStationary
  /\ stationaryStartTime # Null
  /\ deviationHistory # <<>>

\* C12: after every detectStationary call the dwell timer is set exactly when
\* the samples in the window satisfy the quiet condition (minSampleCount or
\* more of them, mean and standard deviation below their thresholds).
TimerSetIffQuiet ==
  Called => (stationaryStartTime # Null <=> WindowQuiet)

\* C13: the duration of every result is the time from stationaryStartTime to
\* the call's now when the timer is set after the call, and 0 when it is not.
DurationIsElapsed ==
  Called =>
    last.result.duration =
      (IF stationaryStartTime # Null THEN last.now - stationaryStartTime ELSE 0)

\* C14: stateChanged is true on a call exactly when the call changed the
\* value getIsStationary() returns.
StateChangedIffFlagChanged ==
  Called => (last.result.stateChanged <=> (getIsStationary # last.wasStationary))

StateChangedIffFlagChangedWitness ==
  /\ Called
  /\ last.result.stateChanged
  /\ last.wasStationary
  /\ ~getIsStationary

\* C15: with non-decreasing clock readings, after every call the window holds
\* exactly the samples inserted since construction or the last reset() that
\* are at most historyDurationMs older than the newest one, in insertion
\* order, the sample just inserted among them.
InsertedRecent(sample) ==
  last.tsNow - sample.timestamp <= cfg.historyDurationMs

WindowInvariant ==
  Called =>
    /\ deviationHistory = SelectSeq(inserted, InsertedRecent)
    /\ deviationHistory # <<>>
    /\ deviationHistory[WindowSize] =
         [value |-> last.deviation, timestamp |-> last.tsNow]
    /\ \A i \in 1..(WindowSize - 1) :
         deviationHistory[i].timestamp <= deviationHistory[i + 1].timestamp

WindowInvariantWitness ==
  /\ Called
  /\ Len(inserted) > WindowSize
  /\ WindowSize >= 2
  /\ last.tsNow - deviationHistory[1].timestamp = cfg.historyDurationMs

NowSampledOnce ==
  Called =>
    /\ newestTimestamp(deviationHistory) = last.now
    /\ (last.startBefore = Null /\ stationaryStartTime # Null)
         => stationaryStartTime = newestTimestamp(deviationHistory)

\* C18: a call that leaves fewer than minSampleCount samples in the window
\* leaves the stationary flag and the dwell timer as they were.
PendingCallFrame ==
  (Called /\ ~WindowClassified) =>
    /\ isStationary = last.wasStationary
    /\ stationaryStartTime = last.startBefore

PendingCallFrameWitness ==
  /\ Called
  /\ ~WindowClassified
  /\ last.wasStationary
  /\ getIsStationary
  /\ ~last.result.isStationary
  /\ stationaryStartTime # Null

\* C19: in every reachable state isStationary = true implies that the dwell
\* timer is set, and it was at least stationaryDurationMs old at the call that
\* made isStationary true.
StationaryImpliesTimer ==
  /\ isStationary => stationaryStartTime # Null
  /\ BecameStationary =>
       /\ stationaryStartTime # Null
       /\ last.now - stationaryStartTime >= cfg.stationaryDurationMs

StationaryImpliesTimerWitness ==
  /\ BecameStationary
  /\ obs.epoch = "reset"
  /\ last.now - stationaryStartTime >= cfg.stationaryDurationMs

\* C20: at most one GPS watch and one accelerometer subscription are active,
\* both exactly when isWatching() is true; startWatching while watching changes
\* nothing and stopWatching leaves neither active.
WatchesInStep ==
  /\ Cardinality(activeWatches) <= 1
  /\ Cardinality(activeSubscriptions) <= 1
  /\ isWatching <=> activeWatches # {}
  /\ isWatching <=> activeSubscriptions # {}
  /\ isWatching => (activeWatches = {watchId}
                      /\ activeSubscriptions = {accelerometerSubscription})

WatchLifecycle ==
  [][/\ WatchesInStep'
     /\ (last'.op = "start" /\ last'.wasWatching) => UNCHANGED <<service, detector>>
     /\ last'.op = "stop" =>
          (activeWatches' = {} /\ activeSubscriptions' = {} /\ ~isWatching')]_vars

WatchLifecycleWitness ==
  /\ last.op = "start"
  /\ last.wasWatching
  /\ isWatching
  /\ activeWatches = {watchId}
  /\ activeSubscriptions = {accelerometerSubscription}

====
